---- MODULE Spec2Model ----
(***************************************************************************)
(* Model of the size-bounded LRU cache of seanjohnno/memcache.             *)
(*                                                                         *)
(* The repository holds two versions of the LRU engine:                    *)
(*   impl "A" : src/lrucache.go          (Add/Get/Remove edit the list     *)
(*              in place)                                                  *)
(*   impl "B" : src/unnamed/part_000     (lruCacheItem.Remove/Add helpers) *)
(* The heap of lruCacheItem structs is modelled explicitly: every item is  *)
(* a node id with the four fields of the struct, pointers are node ids and *)
(* Nil is the nil pointer.  Every method is a pure operator from a cache   *)
(* record to a cache record, written statement by statement.               *)
(***************************************************************************)
EXTENDS Integers, Sequences, FiniteSets, TLC

\* ------------------------------------------------------------------------
\* Bounds
\* ------------------------------------------------------------------------
NumKeys == 3
NumVals == 3
MaxItemSize == 3
MaxNodes == 4
MaxSize == 2
MinCurSize == 2
MaxCalls == 6
MaxGoCalls == 3
MaxDeficit == 1
MaxMutCalls == 4
NumTimes == 2

Keys == 1..NumKeys
Values == 1..NumVals
Nodes == 1..MaxNodes
\* two goroutines share the cache
Procs == {1, 2}
Nil == 0
NoKey == 0
NoVal == 0

\* Size() of the payloads handed to the cache when they are created
InitSize(v) == v % (MaxItemSize + 1)

VARIABLES impl, cache, twin, sizeOf, last, recency, lastAdd, fresh, counted, calls,
          mutex, pc, call, res, start

vars == <<impl, cache, twin, sizeOf, last, recency, lastAdd, fresh, counted, calls,
          mutex, pc, call, res, start>>

\* the variables of the goroutines
govars == <<mutex, pc, call, res, start>>
\* the history of a single caller's calls
histvars == <<last, recency, lastAdd, fresh, counted>>

\* ------------------------------------------------------------------------
\* Heap of lruCacheItem structs
\* ------------------------------------------------------------------------
BlankItem == [cacheItem |-> NoVal, key |-> NoKey, prev |-> Nil, next |-> Nil]

\* the state of a cache right after CreateLRUCache(maxsize)
CreateLRUCache(maxsize) ==
    [keyValMap |-> [k \in Keys |-> Nil],
     head |-> Nil, tail |-> Nil,
     maxSize |-> maxsize, curSize |-> 0,
     item |-> [n \in Nodes |-> BlankItem],
     status |-> "ok"]

\* CacheItem.Size() of payload v, as the payload reports it now
Size(sz, v) == sz[v]

\* a nil pointer dereference: the call panics and never returns
Panic(c) == [c EXCEPT !.status = "panic"]

\* the pointers the cache itself holds, in a fixed order
RootSeq(c) == <<c.head, c.tail>> \o [i \in 1..NumKeys |-> c.keyValMap[i]]

InSeq(seq, n) == \E i \in 1..Len(seq) : seq[i] = n

RECURSIVE Distinct(_, _)
Distinct(seq, acc) ==
    IF seq = <<>> THEN acc
    ELSE Distinct(Tail(seq),
                  IF Head(seq) = Nil \/ InSeq(acc, Head(seq)) THEN acc ELSE Append(acc, Head(seq)))

\* the items some pointer of the cache leads to, in the order a walk from the
\* roots over next and prev meets them
RECURSIVE Walk(_, _, _)
Walk(c, order, i) ==
    IF i > Len(order) THEN order
    ELSE Walk(c, Distinct(<<c.item[order[i]].next, c.item[order[i]].prev>>, order), i + 1)

ReachSeq(c) == Walk(c, Distinct(RootSeq(c), <<>>), 1)

\* the items the garbage collector keeps
Reachable(c) == LET order == ReachSeq(c) IN {order[i] : i \in 1..Len(order)}

\* Items no pointer of the cache leads to are collected.  A pointer's value
\* is only ever compared with another pointer, so the items kept are
\* numbered in the order of the walk: caches that differ in their addresses
\* only are one state
Collect(c) ==
    LET order == ReachSeq(c)
        ren(n) == IF n = Nil THEN Nil ELSE CHOOSE i \in 1..Len(order) : order[i] = n
    IN [c EXCEPT !.item = [i \in Nodes |->
                              IF i <= Len(order)
                              THEN [cacheItem |-> c.item[order[i]].cacheItem,
                                    key |-> c.item[order[i]].key,
                                    prev |-> ren(c.item[order[i]].prev),
                                    next |-> ren(c.item[order[i]].next)]
                              ELSE BlankItem],
                 !.head = ren(c.head),
                 !.tail = ren(c.tail),
                 !.keyValMap = [k \in Keys |-> ren(c.keyValMap[k])]]

FreeNodes(c) == Nodes \ Reachable(c)

\* &lruCacheItem { cacheItem: v, key: k }
NewItem(c) == LET free == FreeNodes(c) IN CHOOSE n \in free : \A m \in free : n <= m

\* lruItem := &lruCacheItem { cacheItem: v, key: k }; the model's heap is
\* finite, "oom" marks a call the bound MaxNodes leaves out
Alloc(c, k, v) ==
    LET free == FreeNodes(c)
    IN IF free = {} THEN [c EXCEPT !.status = "oom"]
       ELSE [c EXCEPT !.item[CHOOSE n \in free : \A m \in free : n <= m] =
                         [cacheItem |-> v, key |-> k, prev |-> Nil, next |-> Nil]]

\* ------------------------------------------------------------------------
\* impl B : src/unnamed/part_000
\* ------------------------------------------------------------------------

\* func (this *lruCacheItem) Remove(cache *lruCache)
ItemRemove(c, sz, n) ==
    IF c.status # "ok" THEN c
    ELSE IF n = Nil THEN Panic(c)
    ELSE
      LET i1 == IF c.item[n].prev # Nil
                THEN [c.item EXCEPT ![c.item[n].prev].next = c.item[n].next]
                ELSE c.item
          i2 == IF i1[n].next # Nil
                THEN [i1 EXCEPT ![i1[n].next].prev = i1[n].prev]
                ELSE i1
          h  == IF n = c.head THEN i2[n].next ELSE c.head
          t  == IF n = c.tail THEN i2[n].prev ELSE c.tail
      IN [c EXCEPT !.item = i2, !.head = h, !.tail = t,
                   !.curSize = @ - Size(sz, i2[n].cacheItem),
                   !.keyValMap = [@ EXCEPT ![i2[n].key] = Nil]]

\* func (this *lruCacheItem) Add(cache *lruCache)
ItemAdd(c, sz, n) ==
    IF c.status # "ok" THEN c
    ELSE
      LET c1 == IF c.head = Nil
                THEN [c EXCEPT !.head = n, !.tail = n]
                ELSE LET i1 == [c.item EXCEPT ![c.head].prev = n]
                         i2 == [i1 EXCEPT ![n].next = c.head]
                     IN [c EXCEPT !.item = i2, !.head = n]
      IN [c1 EXCEPT !.curSize = @ + Size(sz, c1.item[n].cacheItem),
                    !.keyValMap = [@ EXCEPT ![c1.item[n].key] = n]]

\* for this.curSize + v.Size() > this.maxSize { this.tail.Remove(this) }
\* seen holds the cache states the loop has been in: meeting one again, the
\* loop never ends ("hang")
RECURSIVE EvictB(_, _, _, _)
EvictB(c, sz, v, seen) ==
    IF c.status # "ok" THEN c
    ELSE IF ~(c.curSize + Size(sz, v) > c.maxSize) THEN c
    ELSE IF c \in seen THEN [c EXCEPT !.status = "hang"]
    ELSE EvictB(ItemRemove(c, sz, c.tail), sz, v, seen \cup {c})

\* part_000's Add, had it rejected an item of exactly maxSize
AddBRejectsAtMaxSize(c, sz, k, v) ==
    LET item == c.keyValMap[k]
        present == item # Nil
        c1 == IF present THEN ItemRemove(c, sz, item) ELSE c
    IN IF present /\ v = c1.item[item].cacheItem
         THEN [c |-> ItemAdd(c1, sz, item), err |-> FALSE]
       ELSE IF Size(sz, v) >= c1.maxSize
         THEN [c |-> c1, err |-> TRUE]
       ELSE LET c2 == EvictB(c1, sz, v, {})
                c3 == IF c2.status = "ok" THEN Alloc(c2, k, v) ELSE c2
                c4 == IF c3.status = "ok" THEN ItemAdd(c3, sz, NewItem(c2)) ELSE c3
            IN [c |-> c4, err |-> FALSE]

\* func (this *lruCache) Add(k string, v CacheItem) error    (part_000)
\* the result: the cache after the call, err = an error was returned
AddB(c, sz, k, v) ==
    LET item == c.keyValMap[k]
        present == item # Nil
        c1 == IF present THEN ItemRemove(c, sz, item) ELSE c
    IN IF present /\ v = c1.item[item].cacheItem
         THEN [c |-> ItemAdd(c1, sz, item), err |-> FALSE]
       ELSE IF Size(sz, v) > c1.maxSize
         THEN [c |-> c1, err |-> TRUE]
       ELSE LET c2 == EvictB(c1, sz, v, {})
                c3 == IF c2.status = "ok" THEN Alloc(c2, k, v) ELSE c2
                c4 == IF c3.status = "ok" THEN ItemAdd(c3, sz, NewItem(c2)) ELSE c3
            IN [c |-> c4, err |-> FALSE]

\* func (this *lruCache) Get(key string) (CacheItem, bool)    (part_000)
GetB(c, sz, key) ==
    LET item == c.keyValMap[key]
    IN IF item # Nil
         THEN [c |-> ItemAdd(ItemRemove(c, sz, item), sz, item),
               val |-> c.item[item].cacheItem, ok |-> TRUE]
         ELSE [c |-> c, val |-> NoVal, ok |-> FALSE]

\* part_000's Remove, had it not looked whether the key is present
RemoveBUnchecked(c, sz, key) == ItemRemove(c, sz, c.keyValMap[key])

\* func (this *lruCache) Remove(key string)    (part_000)
RemoveB(c, sz, key) ==
    LET item == c.keyValMap[key]
    IN IF item # Nil THEN ItemRemove(c, sz, item) ELSE c

\* ------------------------------------------------------------------------
\* impl A : src/lrucache.go
\* ------------------------------------------------------------------------

\* func (this *lruCache) Remove(key string)    (lrucache.go)
RemoveA(c, sz, key) ==
    LET n == c.keyValMap[key]
    IN IF n = Nil THEN c
       ELSE
         LET c1 == [c EXCEPT !.keyValMap[key] = Nil,
                             !.curSize = @ - Size(sz, c.item[n].cacheItem)]
         IN IF n = c1.head THEN
                IF c1.item[c1.head].next # Nil
                THEN [c1 EXCEPT !.item[c1.item[n].next].prev = Nil,
                                !.head = c1.item[n].next]
                ELSE [c1 EXCEPT !.head = Nil, !.tail = Nil]
            ELSE IF n = c1.tail THEN
                IF c1.item[c1.tail].prev # Nil
                THEN [c1 EXCEPT !.item[c1.item[n].prev].next = Nil,
                                !.tail = c1.item[n].prev]
                ELSE [c1 EXCEPT !.head = Nil, !.tail = Nil]
            ELSE
                IF c1.item[n].prev = Nil THEN Panic(c1)
                ELSE LET c2 == [c1 EXCEPT !.item[c1.item[n].prev].next = c1.item[n].next]
                     IN IF c2.item[n].next = Nil THEN Panic(c2)
                        ELSE [c2 EXCEPT !.item[c2.item[n].next].prev = c2.item[n].prev]

\* one pass of the body of the eviction loop of lrucache.go, lines 96-107
EvictStepA(c, sz) ==
    IF c.tail = Nil THEN Panic(c)
    ELSE
      LET c1 == [c EXCEPT !.keyValMap[c.item[c.tail].key] = Nil,
                          !.curSize = @ - Size(sz, c.item[c.tail].cacheItem)]
          newTail == c1.item[c1.tail].prev
      IN IF newTail # Nil
           THEN [c1 EXCEPT !.item[newTail].next = Nil, !.tail = newTail]
           ELSE [c1 EXCEPT !.head = Nil, !.tail = Nil]

\* for this.curSize + v.Size() > this.maxSize { ... }    (lrucache.go)
RECURSIVE EvictA(_, _, _, _)
EvictA(c, sz, v, seen) ==
    IF c.status # "ok" THEN c
    ELSE IF ~(c.curSize + Size(sz, v) > c.maxSize) THEN c
    ELSE IF c \in seen THEN [c EXCEPT !.status = "hang"]
    ELSE EvictA(EvictStepA(c, sz), sz, v, seen \cup {c})

\* lrucache.go's Add from the item's creation on, had it no size check
AddAInsertUnchecked(c, sz, k, v) ==
    IF c.status # "ok" THEN [c |-> c, err |-> FALSE]
    ELSE
      LET c1 == EvictA(c, sz, v, {})
          c2 == IF c1.status = "ok" THEN Alloc(c1, k, v) ELSE c1
          n  == NewItem(c1)
          c3 == IF c2.status # "ok" THEN c2
                ELSE LET m == [c2 EXCEPT !.keyValMap[k] = n]
                     IN IF m.head = Nil
                          THEN [m EXCEPT !.head = n, !.tail = n]
                          ELSE [m EXCEPT !.item[n].next = m.head,
                                         !.item[m.head].prev = n,
                                         !.head = n]
      IN [c |-> c3, err |-> FALSE]

\* lrucache.go Add from the item's creation on: what Add does after its
\* call of this.Remove(k) has returned
AddAInsert(c, sz, k, v) ==
    IF c.status # "ok" THEN [c |-> c, err |-> FALSE]
    ELSE IF Size(sz, v) > c.maxSize THEN [c |-> c, err |-> TRUE]
    ELSE
      LET c1 == EvictA(c, sz, v, {})
          c2 == IF c1.status = "ok" THEN Alloc(c1, k, v) ELSE c1
          n  == NewItem(c1)
          c3 == IF c2.status # "ok" THEN c2
                ELSE LET m == [c2 EXCEPT !.keyValMap[k] = n]
                     IN IF m.head = Nil
                          THEN [m EXCEPT !.head = n, !.tail = n]
                          ELSE [m EXCEPT !.item[n].next = m.head,
                                         !.item[m.head].prev = n,
                                         !.head = n]
      IN [c |-> c3, err |-> FALSE]

\* func (this *lruCache) Add(k string, v CacheItem) error    (lrucache.go)
AddA(c, sz, k, v) == AddAInsert(RemoveA(c, sz, k), sz, k, v)

\* func (this *lruCache) Get(key string) (CacheItem, bool)    (lrucache.go)
GetA(c, sz, key) ==
    LET val == c.keyValMap[key]
    IN IF val = Nil THEN [c |-> c, val |-> NoVal, ok |-> FALSE]
       ELSE IF c.head = val
         THEN [c |-> c, val |-> c.item[val].cacheItem, ok |-> TRUE]
       ELSE IF c.item[val].prev = Nil
         THEN [c |-> Panic(c), val |-> NoVal, ok |-> FALSE]
       ELSE
         LET c1 == [c EXCEPT !.item[c.item[val].prev].next = c.item[val].next]
             c2 == IF c1.item[val].next # Nil
                   THEN [c1 EXCEPT !.item[c1.item[val].next].prev = c1.item[val].prev]
                   ELSE c1
             c3 == [c2 EXCEPT !.item[val].prev = Nil]
             c4 == [c3 EXCEPT !.item[val].next = c3.head]
         IN IF c4.head = Nil
              THEN [c |-> Panic(c4), val |-> NoVal, ok |-> FALSE]
              ELSE [c |-> [c4 EXCEPT !.item[c4.head].prev = val, !.head = val],
                    val |-> c.item[val].cacheItem, ok |-> TRUE]

\* ------------------------------------------------------------------------
\* The cache driven by one caller at a time
\* ------------------------------------------------------------------------
\* ------------------------------------------------------------------------
\* cacheutil: FileCacheItem and FileCacheAcessor
\*
\* A string is a sequence of letters.  The file paths of the model are the
\* strings made of the word "compressed" only (the empty path, the file
\* named "compressed", ...), so that appending CompressionSuffix to a path
\* gives a string of the model again.
\* ------------------------------------------------------------------------
CompressionSuffix == <<"compressed">>

FilePaths == {[i \in 1..n |-> "compressed"] : n \in 0..(NumKeys - 2)}

\* the key of keyValMap that stands for the string s
KeyOf(s) == Len(s) + 1

\* the modification times of files
ModTimes == 0..(NumTimes - 1)

\* FileCacheItem.FileModTime of payload v; FileCacheItem.Data is v itself
FileModTime(v) == v % NumTimes

\* func NewFileCache(filePath, fileInfo, compression, cache); fileInfo is
\* modelled by its ModTime(), cache by whether it is not nil
NewFileCache(filePath, modTime, compression, hasCache) ==
    IF ~hasCache
      THEN [FilePath |-> <<>>, ModTime |-> 0, Compression |-> FALSE,
            UnderlyingCache |-> FALSE, CacheKey |-> <<>>]
      ELSE [FilePath |-> filePath, ModTime |-> modTime, Compression |-> compression,
            UnderlyingCache |-> TRUE,
            CacheKey |-> IF compression THEN filePath \o CompressionSuffix ELSE filePath]

\* a call and what it returned: err of Add, (ret, ok) of Get; had and pos
\* record what the call found: the key was in keyValMap, and the place of its
\* entry in the walk from head (0: not met)
\* acc is the accessor a call of GetFile or PutFile was made on
NoCall == [op |-> "none", key |-> NoKey, val |-> NoVal, err |-> FALSE, ok |-> FALSE, ret |-> NoVal,
           had |-> FALSE, pos |-> 0, acc |-> NewFileCache(<<>>, 0, FALSE, FALSE)]

\* the place of key k's entry in the walk from head via next
RECURSIVE Place(_, _, _, _)
Place(c, k, n, i) ==
    IF n = Nil \/ i > MaxNodes THEN 0
    ELSE IF n = c.keyValMap[k] THEN i
    ELSE Place(c, k, c.item[n].next, i + 1)

Found(c, k) == [had |-> c.keyValMap[k] # Nil, pos |-> Place(c, k, c.head, 1)]

\* history of the calls: k moved to the front of the touch order
Touch(seq, k) == <<k>> \o SelectSeq(seq, LAMBDA j : j # k)

\* what linking an item of payload v adds to curSize: lruCacheItem.Add of
\* part_000 adds cacheItem.Size(), the insertion of lrucache.go adds nothing
AdmittedSize(sz, v) == IF impl = "A" THEN 0 ELSE Size(sz, v)

Init ==
    /\ impl \in {"A", "B"}
    /\ cache = CreateLRUCache(MaxSize)
    /\ twin = cache
    /\ sizeOf = [v \in Values |-> InitSize(v)]
    /\ last = NoCall
    /\ recency = <<>>
    /\ lastAdd = [k \in Keys |-> NoVal]
    /\ fresh = [k \in Keys |-> FALSE]
    /\ counted = [k \in Keys |-> 0]
    /\ calls = 0
    /\ mutex = 0
    /\ pc = [p \in Procs |-> "idle"]
    /\ call = [p \in Procs |-> NoCall]
    /\ res = [p \in Procs |-> NoCall]
    /\ start = cache

\* a call is made on a cache that has not crashed, and the model follows the
\* cache only while it fits the model's heap and its counter range
Runs(c) == c.status # "oom" /\ c.curSize >= 0 - MinCurSize

Add(k, v) ==
    /\ cache.status = "ok"
    /\ calls < MaxCalls
    /\ calls' = calls + 1
    /\ LET r == IF impl = "A" THEN AddA(cache, sizeOf, k, v) ELSE AddB(cache, sizeOf, k, v)
           done == r.c.status = "ok"
       IN /\ Runs(r.c)
          /\ cache' = Collect(r.c)
          /\ last' = [op |-> "Add", key |-> k, val |-> v, err |-> done /\ r.err,
                      ok |-> FALSE, ret |-> NoVal,
                      had |-> Found(cache, k).had, pos |-> Found(cache, k).pos,
                      acc |-> NoCall.acc]
          /\ IF done /\ ~r.err
               THEN /\ recency' = Touch(recency, k)
                    /\ lastAdd' = [lastAdd EXCEPT ![k] = v]
                    /\ counted' = [counted EXCEPT ![k] = AdmittedSize(sizeOf, v)]
                    /\ fresh' = [j \in Keys |->
                                   IF j = k THEN TRUE
                                   ELSE fresh[j] /\ ~(cache.keyValMap[j] # Nil /\ r.c.keyValMap[j] = Nil)]
               ELSE UNCHANGED <<recency, lastAdd, fresh, counted>>
    /\ UNCHANGED <<impl, twin, sizeOf>>
    /\ UNCHANGED govars

Get(k) ==
    /\ cache.status = "ok"
    /\ calls < MaxCalls
    /\ calls' = calls + 1
    /\ LET r == IF impl = "A" THEN GetA(cache, sizeOf, k) ELSE GetB(cache, sizeOf, k)
           done == r.c.status = "ok"
       IN /\ Runs(r.c)
          /\ cache' = Collect(r.c)
          /\ last' = [op |-> "Get", key |-> k, val |-> NoVal, err |-> FALSE,
                      ok |-> done /\ r.ok, ret |-> IF done THEN r.val ELSE NoVal,
                      had |-> Found(cache, k).had, pos |-> Found(cache, k).pos,
                      acc |-> NoCall.acc]
          /\ recency' = IF done /\ r.ok THEN Touch(recency, k) ELSE recency
    /\ UNCHANGED <<impl, twin, sizeOf, lastAdd, fresh, counted>>
    /\ UNCHANGED govars

Remove(k) ==
    /\ cache.status = "ok"
    /\ calls < MaxCalls
    /\ calls' = calls + 1
    /\ LET c == IF impl = "A" THEN RemoveA(cache, sizeOf, k) ELSE RemoveB(cache, sizeOf, k)
       IN /\ Runs(c)
          /\ cache' = Collect(c)
          /\ last' = [op |-> "Remove", key |-> k, val |-> NoVal, err |-> FALSE,
                      ok |-> FALSE, ret |-> NoVal,
                      had |-> Found(cache, k).had, pos |-> Found(cache, k).pos,
                      acc |-> NoCall.acc]
          /\ fresh' = [fresh EXCEPT ![k] = FALSE]
    /\ UNCHANGED <<impl, twin, sizeOf, recency, lastAdd, counted>>
    /\ UNCHANGED govars

Next ==
    \/ \E k \in Keys, v \in Values : Add(k, v)
    \/ \E k \in Keys : Get(k)
    \/ \E k \in Keys : Remove(k)

Spec == Init /\ [][Next]_vars

\* the same callers on one version of the engine only
InitA == Init /\ impl = "A"
InitB == Init /\ impl = "B"
SpecA == InitA /\ [][Next]_vars
SpecB == InitB /\ [][Next]_vars

\* Size() of payloads of which one is empty
EmptyableSize(v) == v - 1

\* a cache created with maxsize <= 0, and payloads of size 0 and more
InitNonPositive ==
    /\ impl \in {"A", "B"}
    /\ cache \in {CreateLRUCache(0 - d) : d \in 0..MaxDeficit}
    /\ twin = cache
    /\ sizeOf = [v \in Values |-> EmptyableSize(v)]
    /\ last = NoCall
    /\ recency = <<>>
    /\ lastAdd = [k \in Keys |-> NoVal]
    /\ fresh = [k \in Keys |-> FALSE]
    /\ counted = [k \in Keys |-> 0]
    /\ calls = 0
    /\ mutex = 0
    /\ pc = [p \in Procs |-> "idle"]
    /\ call = [p \in Procs |-> NoCall]
    /\ res = [p \in Procs |-> NoCall]
    /\ start = cache

NonPositiveSpec == InitNonPositive /\ [][Next]_vars

\* the payload v changes its Size() (a FileCacheItem whose Data is assigned
\* another slice), whether the cache holds it or not
Resize(v, s) ==
    /\ cache.status = "ok"
    /\ calls < MaxMutCalls
    /\ s # sizeOf[v]
    /\ calls' = calls + 1
    /\ sizeOf' = [sizeOf EXCEPT ![v] = s]
    /\ last' = [NoCall EXCEPT !.op = "Resize", !.val = v]
    /\ UNCHANGED <<impl, twin, cache, recency, lastAdd, fresh, counted>>
    /\ UNCHANGED govars

\* the calls of the cache, made while payloads change their size
MutAdd(k, v) == calls < MaxMutCalls /\ Add(k, v)
MutGet(k) == calls < MaxMutCalls /\ Get(k)
MutRemove(k) == calls < MaxMutCalls /\ Remove(k)

MutNext ==
    \/ \E k \in Keys, v \in Values : MutAdd(k, v)
    \/ \E k \in Keys : MutGet(k)
    \/ \E k \in Keys : MutRemove(k)
    \/ \E v \in Values, s \in 1..MaxItemSize : Resize(v, s)

\* part_000, the version that counts an item's size when it links it
MutSpecB == InitB /\ [][MutNext]_vars

\* ------------------------------------------------------------------------
\* The cache used through file accessors only
\* ------------------------------------------------------------------------
\* a file accessor's GetFile without the comparison of the times
GetFileOfUnchecked(c, sz, acc) ==
    IF ~acc.UnderlyingCache THEN [c |-> c, data |-> NoVal]
    ELSE LET g == IF impl = "A" THEN GetA(c, sz, KeyOf(acc.CacheKey))
                  ELSE GetB(c, sz, KeyOf(acc.CacheKey))
         IN IF g.c.status = "ok" /\ g.ok THEN [c |-> g.c, data |-> g.val]
            ELSE [c |-> g.c, data |-> NoVal]

\* func (this *FileCacheAcessor) GetFile() []byte
\* data is the payload whose Data is returned, NoVal for nil
GetFileOf(c, sz, acc) ==
    IF ~acc.UnderlyingCache THEN [c |-> c, data |-> NoVal]
    ELSE LET key == KeyOf(acc.CacheKey)
             g == IF impl = "A" THEN GetA(c, sz, key) ELSE GetB(c, sz, key)
         IN IF g.c.status = "ok" /\ g.ok
              THEN IF acc.ModTime # FileModTime(g.val)
                     THEN [c |-> IF impl = "A" THEN RemoveA(g.c, sz, key) ELSE RemoveB(g.c, sz, key),
                           data |-> NoVal]
                     ELSE [c |-> g.c, data |-> g.val]
              ELSE [c |-> g.c, data |-> NoVal]

\* func (this *FileCacheAcessor) PutFile(data []byte, modTime time.Time)
\* v is the new FileCacheItem; the error of Add is dropped
PutFileOf(c, sz, acc, v) ==
    IF ~acc.UnderlyingCache THEN c
    ELSE IF impl = "A" THEN AddA(c, sz, KeyOf(acc.CacheKey), v).c
    ELSE AddB(c, sz, KeyOf(acc.CacheKey), v).c

GetFile(filePath, modTime, compression, hasCache) ==
    /\ cache.status = "ok"
    /\ calls < MaxCalls
    /\ calls' = calls + 1
    /\ LET acc == NewFileCache(filePath, modTime, compression, hasCache)
           r == GetFileOf(cache, sizeOf, acc)
       IN /\ Runs(r.c)
          /\ cache' = Collect(r.c)
          /\ last' = [NoCall EXCEPT !.op = "GetFile", !.key = KeyOf(acc.CacheKey),
                                    !.ret = IF r.c.status = "ok" THEN r.data ELSE NoVal,
                                    !.had = Found(cache, KeyOf(acc.CacheKey)).had,
                                    !.pos = Found(cache, KeyOf(acc.CacheKey)).pos,
                                    !.acc = acc]
    /\ UNCHANGED <<impl, twin, sizeOf, recency, lastAdd, fresh, counted>>
    /\ UNCHANGED govars

\* &FileCacheItem { Data: data, FileModTime: modTime } is a new payload: no
\* item of the cache points to it yet
PutFile(filePath, v, compression, hasCache) ==
    /\ cache.status = "ok"
    /\ calls < MaxCalls
    /\ \A n \in Nodes : cache.item[n].cacheItem # v
    /\ calls' = calls + 1
    /\ LET acc == NewFileCache(filePath, FileModTime(v), compression, hasCache)
           c == PutFileOf(cache, sizeOf, acc, v)
       IN /\ Runs(c)
          /\ cache' = Collect(c)
          /\ last' = [NoCall EXCEPT !.op = "PutFile", !.key = KeyOf(acc.CacheKey), !.val = v,
                                    !.had = Found(cache, KeyOf(acc.CacheKey)).had,
                                    !.pos = Found(cache, KeyOf(acc.CacheKey)).pos,
                                    !.acc = acc]
    /\ UNCHANGED <<impl, twin, sizeOf, recency, lastAdd, fresh, counted>>
    /\ UNCHANGED govars

FileNext ==
    \/ \E f \in FilePaths, t \in ModTimes, z \in BOOLEAN, h \in BOOLEAN : GetFile(f, t, z, h)
    \/ \E f \in FilePaths, v \in Values, z \in BOOLEAN, h \in BOOLEAN : PutFile(f, v, z, h)

FileSpec == Init /\ [][FileNext]_vars

\* ------------------------------------------------------------------------
\* The two versions side by side: cache is a cache of lrucache.go, twin one
\* of part_000, created with the same maxsize; every call is made on both
\* with the same arguments
\* ------------------------------------------------------------------------
BothAdd(k, v) ==
    /\ cache.status = "ok" /\ twin.status = "ok"
    /\ calls < MaxCalls
    /\ calls' = calls + 1
    /\ LET a == AddA(cache, sizeOf, k, v)
           b == AddB(twin, sizeOf, k, v)
       IN /\ Runs(a.c) /\ Runs(b.c)
          /\ cache' = Collect(a.c)
          /\ twin' = Collect(b.c)
          /\ last' = [NoCall EXCEPT !.op = "Add", !.key = k, !.val = v,
                                    !.err = a.c.status = "ok" /\ a.err,
                                    !.had = Found(cache, k).had, !.pos = Found(cache, k).pos]
    /\ UNCHANGED <<impl, sizeOf, recency, lastAdd, fresh, counted>>
    /\ UNCHANGED govars

BothGet(k) ==
    /\ cache.status = "ok" /\ twin.status = "ok"
    /\ calls < MaxCalls
    /\ calls' = calls + 1
    /\ LET a == GetA(cache, sizeOf, k)
           b == GetB(twin, sizeOf, k)
       IN /\ Runs(a.c) /\ Runs(b.c)
          /\ cache' = Collect(a.c)
          /\ twin' = Collect(b.c)
          /\ last' = [NoCall EXCEPT !.op = "Get", !.key = k,
                                    !.ok = a.c.status = "ok" /\ a.ok,
                                    !.ret = IF a.c.status = "ok" THEN a.val ELSE NoVal,
                                    !.had = Found(cache, k).had, !.pos = Found(cache, k).pos]
    /\ UNCHANGED <<impl, sizeOf, recency, lastAdd, fresh, counted>>
    /\ UNCHANGED govars

BothRemove(k) ==
    /\ cache.status = "ok" /\ twin.status = "ok"
    /\ calls < MaxCalls
    /\ calls' = calls + 1
    /\ LET a == RemoveA(cache, sizeOf, k)
           b == RemoveB(twin, sizeOf, k)
       IN /\ Runs(a) /\ Runs(b)
          /\ cache' = Collect(a)
          /\ twin' = Collect(b)
          /\ last' = [NoCall EXCEPT !.op = "Remove", !.key = k,
                                    !.had = Found(cache, k).had, !.pos = Found(cache, k).pos]
    /\ UNCHANGED <<impl, sizeOf, recency, lastAdd, fresh, counted>>
    /\ UNCHANGED govars

BothNext ==
    \/ \E k \in Keys, v \in Values : BothAdd(k, v)
    \/ \E k \in Keys : BothGet(k)
    \/ \E k \in Keys : BothRemove(k)

BothSpec == InitA /\ [][BothNext]_vars

\* ------------------------------------------------------------------------
\* The cache called by goroutines
\*
\* Every goroutine makes one call at a time.  pc is its place in the call:
\*   lock1, body1, unlock1 : mutex.Lock(), the statements under the lock and
\*                           the deferred mutex.Unlock() of Get, of Remove,
\*                           of part_000's Add and of the this.Remove(k) that
\*                           lrucache.go's Add starts with
\*   check                 : lrucache.go Add, the size check made with the
\*                           mutex not held
\*   lock2, body2, unlock2 : lrucache.go Add, from its own mutex.Lock() on
\*   done                  : the call has returned
\* The goroutines call in rounds: when all have returned, the next calls
\* start, and start is the cache the round began with.
\* ------------------------------------------------------------------------
Invoke(p, op, k, v) ==
    /\ cache.status = "ok"
    /\ pc[p] = "idle"
    /\ calls < MaxGoCalls
    /\ calls' = calls + 1
    /\ call' = [call EXCEPT ![p] = [NoCall EXCEPT !.op = op, !.key = k, !.val = v]]
    /\ pc' = [pc EXCEPT ![p] = "lock1"]
    /\ UNCHANGED <<impl, twin, cache, sizeOf, mutex, res, start>>
    /\ UNCHANGED histvars

\* this.mutex.Lock()
Lock(p) ==
    /\ cache.status = "ok"
    /\ pc[p] \in {"lock1", "lock2"}
    /\ mutex = 0
    /\ mutex' = p
    /\ pc' = [pc EXCEPT ![p] = IF pc[p] = "lock1" THEN "body1" ELSE "body2"]
    /\ UNCHANGED <<impl, twin, cache, sizeOf, calls, call, res, start>>
    /\ UNCHANGED histvars

\* the statements a call runs from mutex.Lock() to its return
Body(p) ==
    /\ cache.status = "ok"
    /\ pc[p] = "body1"
    /\ LET k == call[p].key
           v == call[p].val
           r == IF call[p].op = "Add"
                  THEN IF impl = "A"
                         THEN [c |-> RemoveA(cache, sizeOf, k), err |-> FALSE, ok |-> FALSE, val |-> NoVal]
                         ELSE LET a == AddB(cache, sizeOf, k, v)
                              IN [c |-> a.c, err |-> a.err, ok |-> FALSE, val |-> NoVal]
                ELSE IF call[p].op = "Get"
                  THEN LET g == IF impl = "A" THEN GetA(cache, sizeOf, k) ELSE GetB(cache, sizeOf, k)
                       IN [c |-> g.c, err |-> FALSE, ok |-> g.ok, val |-> g.val]
                ELSE [c |-> IF impl = "A" THEN RemoveA(cache, sizeOf, k) ELSE RemoveB(cache, sizeOf, k),
                      err |-> FALSE, ok |-> FALSE, val |-> NoVal]
       IN /\ Runs(r.c)
          /\ cache' = Collect(r.c)
          /\ res' = [res EXCEPT ![p] = [call[p] EXCEPT !.err = r.err, !.ok = r.ok, !.ret = r.val]]
    /\ pc' = [pc EXCEPT ![p] = "unlock1"]
    /\ UNCHANGED <<impl, twin, sizeOf, calls, mutex, call, start>>
    /\ UNCHANGED histvars

\* defer this.mutex.Unlock()
Unlock(p) ==
    /\ cache.status = "ok"
    /\ pc[p] \in {"unlock1", "unlock2"}
    /\ mutex' = 0
    /\ pc' = [pc EXCEPT ![p] = IF pc[p] = "unlock1" /\ impl = "A" /\ call[p].op = "Add"
                               THEN "check" ELSE "done"]
    /\ UNCHANGED <<impl, twin, cache, sizeOf, calls, call, res, start>>
    /\ UNCHANGED histvars

\* lrucache.go Add: if v.Size() > this.maxSize { return errors.New(...) }
CheckSize(p) ==
    /\ cache.status = "ok"
    /\ pc[p] = "check"
    /\ IF Size(sizeOf, call[p].val) > cache.maxSize
         THEN /\ res' = [res EXCEPT ![p] = [call[p] EXCEPT !.err = TRUE]]
              /\ pc' = [pc EXCEPT ![p] = "done"]
         ELSE /\ pc' = [pc EXCEPT ![p] = "lock2"]
              /\ UNCHANGED res
    /\ UNCHANGED <<impl, twin, cache, sizeOf, calls, mutex, call, start>>
    /\ UNCHANGED histvars

\* lrucache.go Add: the eviction loop and the insertion at the head
Insert(p) ==
    /\ cache.status = "ok"
    /\ pc[p] = "body2"
    /\ LET r == AddAInsert(cache, sizeOf, call[p].key, call[p].val)
       IN /\ Runs(r.c)
          /\ cache' = Collect(r.c)
          /\ res' = [res EXCEPT ![p] = [call[p] EXCEPT !.err = r.err]]
    /\ pc' = [pc EXCEPT ![p] = "unlock2"]
    /\ UNCHANGED <<impl, twin, sizeOf, calls, mutex, call, start>>
    /\ UNCHANGED histvars

\* all the calls of the round have returned
Quiet == /\ \A p \in Procs : pc[p] \in {"idle", "done"}
         /\ \E p \in Procs : pc[p] = "done"

NextRound ==
    /\ cache.status = "ok"
    /\ Quiet
    /\ pc' = [p \in Procs |-> "idle"]
    /\ call' = [p \in Procs |-> NoCall]
    /\ res' = [p \in Procs |-> NoCall]
    /\ start' = cache
    /\ UNCHANGED <<impl, twin, cache, sizeOf, calls, mutex>>
    /\ UNCHANGED histvars

GoNext ==
    \/ \E p \in Procs, k \in Keys, v \in Values : Invoke(p, "Add", k, v)
    \/ \E p \in Procs, k \in Keys : Invoke(p, "Get", k, NoVal)
    \/ \E p \in Procs, k \in Keys : Invoke(p, "Remove", k, NoVal)
    \/ \E p \in Procs : Lock(p)
    \/ \E p \in Procs : Body(p)
    \/ \E p \in Procs : Unlock(p)
    \/ \E p \in Procs : CheckSize(p)
    \/ \E p \in Procs : Insert(p)
    \/ NextRound

GoSpec == Init /\ [][GoNext]_vars

\* ------------------------------------------------------------------------
\* What a caller can observe of a cache between two calls
\* ------------------------------------------------------------------------
Returned == cache.status = "ok"

Held(c) == {k \in Keys : c.keyValMap[k] # Nil}

RECURSIVE SumSizes(_, _, _)
SumSizes(c, sz, S) ==
    IF S = {} THEN 0
    ELSE LET k == CHOOSE x \in S : TRUE
         IN Size(sz, c.item[c.keyValMap[k]].cacheItem) + SumSizes(c, sz, S \ {k})

HeldSize(c, sz) == SumSizes(c, sz, Held(c))

\* the items met walking from n via next, up to the first one met twice
RECURSIVE ListWalk(_, _, _)
ListWalk(c, n, acc) ==
    IF n = Nil \/ InSeq(acc, n) THEN acc
    ELSE ListWalk(c, c.item[n].next, Append(acc, n))

List(c) == ListWalk(c, c.head, <<>>)
ListSet(c) == {List(c)[i] : i \in 1..Len(List(c))}
ListKeys(c) == [i \in 1..Len(List(c)) |-> c.item[List(c)[i]].key]

\* the walk from head ends at a nil next
Acyclic(c) == List(c) = <<>> \/ c.item[List(c)[Len(List(c))]].next = Nil

\* C1: after each call returns, curSize equals the sum of Size() over the
\* entries held in keyValMap
SizeAccounting ==
    Returned => cache.curSize = HeldSize(cache, sizeOf)

\* C2: between calls the cache is within its budget: curSize <= maxSize and
\* the total Size() of the held entries is at most maxSize
CapacityBound ==
    Returned => /\ cache.curSize <= cache.maxSize
                /\ HeldSize(cache, sizeOf) <= cache.maxSize

\* C3: every key of keyValMap maps to one entry with that key that the walk
\* from head meets exactly once, and every entry reached from head or pointed
\* to by tail is in keyValMap
IndexListSynchronized ==
    Returned =>
      /\ \A k \in Held(cache) :
            /\ cache.item[cache.keyValMap[k]].key = k
            /\ Cardinality({i \in 1..Len(List(cache)) : List(cache)[i] = cache.keyValMap[k]}) = 1
      /\ \A n \in (ListSet(cache) \cup {cache.tail}) \ {Nil} :
            cache.keyValMap[cache.item[n].key] = n

\* C4: the list is acyclic and doubly consistent, head.prev and tail.next
\* are nil, tail is the last entry reached from head, and head, tail and
\* keyValMap are empty together
ListWellFormed ==
    Returned =>
      /\ Acyclic(cache)
      /\ \A n \in ListSet(cache) :
            /\ cache.item[n].prev # Nil => cache.item[cache.item[n].prev].next = n
            /\ cache.item[n].next # Nil => cache.item[cache.item[n].next].prev = n
      /\ cache.head # Nil => cache.item[cache.head].prev = Nil
      /\ cache.tail # Nil => cache.item[cache.tail].next = Nil
      /\ cache.head # Nil => cache.tail = List(cache)[Len(List(cache))]
      /\ (cache.head = Nil) = (cache.tail = Nil)
      /\ (cache.head = Nil) = (Held(cache) = {})

\* C5: the head-to-tail order of the list is the held keys from the most
\* recently touched to the least recently touched, and tail is the least
\* recently touched entry
LRUOrdering ==
    Returned =>
      /\ ListKeys(cache) = SelectSeq(recency, LAMBDA k : k \in Held(cache))
      /\ cache.head # Nil => cache.tail = List(cache)[Len(List(cache))]

\* the held keys from the most recently touched to the least recently touched
TouchOrder(c) == SelectSeq(recency, LAMBDA k : k \in Held(c))

RECURSIVE SeqSize(_, _, _)
SeqSize(c, sz, keys) ==
    IF keys = <<>> THEN 0
    ELSE Size(sz, c.item[c.keyValMap[Head(keys)]].cacheItem) + SeqSize(c, sz, Tail(keys))

\* the longest most-recently-touched part of keys whose sizes fit in room
RECURSIVE Fitting(_, _, _, _)
Fitting(c, sz, keys, room) ==
    IF keys = <<>> \/ SeqSize(c, sz, keys) <= room THEN keys
    ELSE Fitting(c, sz, SubSeq(keys, 1, Len(keys) - 1), room)

SeqSet(seq) == {seq[i] : i \in 1..Len(seq)}

\* the step is a call Add(k, v) of a new key that returned nil and did not fit
EvictingAdd ==
    /\ last'.op = "Add" /\ cache'.status = "ok" /\ ~last'.err
    /\ cache.keyValMap[last'.key] = Nil
    /\ HeldSize(cache, sizeOf) + Size(sizeOf, last'.val) > cache.maxSize

\* C6: a successful Add of a new key that does not fit makes absent exactly
\* the least recently touched entries, as few as needed for the new item to
\* fit, and every other entry stays present
EvictionChoice ==
    [][EvictingAdd =>
         Held(cache') = SeqSet(Fitting(cache, sizeOf, TouchOrder(cache),
                                       cache.maxSize - Size(sizeOf, last'.val)))
                        \cup {last'.key}]_vars

\* what a caller can tell of the cache by Get: the value under each key, in
\* the order of the list, and the size counted
ValueOf(c, k) == IF c.keyValMap[k] = Nil THEN NoVal ELSE c.item[c.keyValMap[k]].cacheItem

SameContents(c, d) ==
    /\ Held(c) = Held(d)
    /\ \A k \in Keys : ValueOf(c, k) = ValueOf(d, k)
    /\ ListKeys(c) = ListKeys(d)
    /\ c.curSize = d.curSize

\* C7: an Add that fails because the item exceeds maxSize leaves the keys,
\* the value under each key, the recency order and curSize as they were
AddAllOrNothing ==
    [][(last'.op = "Add" /\ cache'.status = "ok" /\ last'.err) => SameContents(cache, cache')]_vars

\* the step is a call of Add that returned
AddReturned == last'.op = "Add" /\ cache'.status = "ok"

Empty(c) == Held(c) = {} /\ c.head = Nil /\ c.tail = Nil

AddGetRoundTrip ==
    (last.op = "Get" /\ Returned) =>
        /\ fresh[last.key] => (last.ok /\ last.ret = lastAdd[last.key])
        /\ last.ok => last.ret = lastAdd[last.key]

\* a whole call made on cache c with no other call running
Serial(c, cl) ==
    IF cl.op = "Add"
      THEN LET a == IF impl = "A" THEN AddA(c, sizeOf, cl.key, cl.val)
                    ELSE AddB(c, sizeOf, cl.key, cl.val)
           IN [c |-> a.c, out |-> [cl EXCEPT !.err = a.err]]
    ELSE IF cl.op = "Get"
      THEN LET g == IF impl = "A" THEN GetA(c, sizeOf, cl.key) ELSE GetB(c, sizeOf, cl.key)
           IN [c |-> g.c, out |-> [cl EXCEPT !.ok = g.ok, !.ret = g.val]]
    ELSE [c |-> IF impl = "A" THEN RemoveA(c, sizeOf, cl.key) ELSE RemoveB(c, sizeOf, cl.key),
          out |-> cl]

\* the calls of goroutines p then q, one whole call after the other, return
\* what the goroutines' calls returned and leave the contents the cache has
SerialMatches(p, q) ==
    LET first  == IF pc[p] = "done" THEN Serial(start, call[p]) ELSE [c |-> start, out |-> NoCall]
        second == IF pc[q] = "done" THEN Serial(first.c, call[q]) ELSE [c |-> first.c, out |-> NoCall]
    IN /\ second.c.status = "ok"
       /\ first.out = res[p]
       /\ second.out = res[q]
       /\ Held(second.c) = Held(cache)
       /\ \A k \in Keys : ValueOf(second.c, k) = ValueOf(cache, k)

\* C10: the results and final contents of concurrent calls are those of
\* some serial execution of the same whole calls
Linearizable ==
    (Quiet /\ Returned) => \E p, q \in Procs : p # q /\ SerialMatches(p, q)

\* ------------------------------------------------------------------------
\* Goroutines: what holds when the calls have returned
\* ------------------------------------------------------------------------
\* no call is running
AllReturned == \A p \in Procs : pc[p] \in {"idle", "done"}

\* C11: once all the goroutines' calls have returned, the size accounting,
\* the capacity bound, the synchronization of keyValMap with the list and the
\* well-formedness of the list hold, and no key has two entries in the list
QuiescentInvariants ==
    AllReturned =>
      /\ SizeAccounting
      /\ CapacityBound
      /\ IndexListSynchronized
      /\ ListWellFormed
      /\ Returned => \A k \in Keys :
                        Cardinality({i \in 1..Len(List(cache)) : ListKeys(cache)[i] = k}) <= 1

\* C12: a call holds the mutex from its first read to its last write: a
\* goroutine that releases the mutex has returned, every change of the cache
\* is made by the holder of the mutex, and a call that has returned does not
\* hold the mutex
LockDiscipline ==
    [][\A p \in Procs :
          /\ (mutex = p /\ mutex' # p) => pc'[p] = "done"
          /\ (cache' # cache /\ pc'[p] # pc[p]) => mutex = p
          /\ pc'[p] = "done" => mutex' # p]_vars

\* ------------------------------------------------------------------------
\* Single calls and what they leave alone
\* ------------------------------------------------------------------------
\* C13: Remove(k) and Get(k) of a key that is not in the cache leave the
\* cache as it was (keys, values, list, curSize) and the touch order too,
\* report no error, and Get returns (nil, false)
AbsentKeyNoOp ==
    [][(last'.op \in {"Remove", "Get"} /\ ~last'.had) =>
          /\ cache' = cache
          /\ recency' = recency
          /\ ~last'.err /\ ~last'.ok /\ last'.ret = NoVal]_vars

\* a Remove of an absent key has returned on a cache that holds other keys
AbsentKeyRemoved ==
    /\ last.op = "Remove" /\ ~last.had /\ Returned
    /\ Held(cache) # {}

LastOf(c) == IF List(c) = <<>> THEN Nil ELSE List(c)[Len(List(c))]

\* C15: a Get of a present key returns (value, true), makes the key's entry
\* the head, and leaves the keys, every key's value, curSize and the relative
\* order of the other entries as they were; tail is the last entry of the
\* new order
GetTouchFrame ==
    [][(last'.op = "Get" /\ last'.had /\ cache'.status = "ok") =>
          /\ last'.ok /\ last'.ret = ValueOf(cache, last'.key)
          /\ cache'.head = cache'.keyValMap[last'.key]
          /\ Held(cache') = Held(cache)
          /\ \A j \in Keys : ValueOf(cache', j) = ValueOf(cache, j)
          /\ cache'.curSize = cache.curSize
          /\ ListKeys(cache') = Touch(ListKeys(cache), last'.key)
          /\ cache'.tail = LastOf(cache')]_vars

\* C16: a Remove of a present key makes the key absent, takes exactly the
\* entry's size off curSize, and keeps every other key's value and the
\* relative order of the other entries; head and tail are the first and the
\* last of the entries left (nil when none is left)
RemovePresent ==
    [][(last'.op = "Remove" /\ last'.had /\ cache'.status = "ok") =>
          /\ cache'.keyValMap[last'.key] = Nil
          /\ cache'.curSize = cache.curSize - Size(sizeOf, ValueOf(cache, last'.key))
          /\ \A j \in Keys \ {last'.key} : ValueOf(cache', j) = ValueOf(cache, j)
          /\ ListKeys(cache') = SelectSeq(ListKeys(cache), LAMBDA j : j # last'.key)
          /\ cache'.tail = LastOf(cache')
          /\ Held(cache') = {} => (cache'.head = Nil /\ cache'.tail = Nil)]_vars

\* Remove(k) and then Add(k, v), each a whole call, made on cache c
RemoveThenAdd(c, sz, k, v) ==
    IF impl = "A" THEN AddA(RemoveA(c, sz, k), sz, k, v)
    ELSE AddB(RemoveB(c, sz, k), sz, k, v)

\* the step is a call Add(k, v) of a key that is in the cache, with an item
\* that fits maxSize
ReplacingAdd ==
    /\ last'.op = "Add" /\ last'.had
    /\ Size(sizeOf, last'.val) <= cache.maxSize

\* C17: an Add(k, v) of a present key leaves the state that Remove(k)
\* followed by Add(k, v) leaves: the same map, list, links and curSize, with
\* k once in the list, at the head, with value v
ReplaceIsRemoveThenAdd ==
    [][ReplacingAdd =>
          /\ cache' = Collect(RemoveThenAdd(cache, sizeOf, last'.key, last'.val).c)
          /\ cache'.status = "ok" =>
                /\ ValueOf(cache', last'.key) = last'.val
                /\ cache'.head = cache'.keyValMap[last'.key]
                /\ Cardinality({i \in 1..Len(List(cache')) :
                                   ListKeys(cache')[i] = last'.key}) = 1]_vars

\* ------------------------------------------------------------------------
\* The eviction loop
\* ------------------------------------------------------------------------
\* the cache Add(k, v) runs its eviction loop on: the entry under k has been
\* removed
BeforeEviction(c, sz, k) ==
    IF impl = "A" THEN RemoveA(c, sz, k) ELSE RemoveB(c, sz, k)

\* Add(k, v) on cache c gets to its eviction loop: the removal of the entry
\* under k has returned, and part_000 did not find the same value under k
ReachesEviction(c, sz, k, v) ==
    /\ BeforeEviction(c, sz, k).status = "ok"
    /\ ~(impl = "B" /\ c.keyValMap[k] # Nil /\ ValueOf(c, k) = v)

\* the eviction loop for item v on cache c ends within left passes, and
\* every pass finds a tail that is an entry of keyValMap
RECURSIVE EvictsSafely(_, _, _, _)
EvictsSafely(c, sz, v, left) ==
    IF c.status # "ok" THEN FALSE
    ELSE IF ~(c.curSize + Size(sz, v) > c.maxSize) THEN TRUE
    ELSE /\ left > 0
         /\ c.tail # Nil
         /\ c.keyValMap[c.item[c.tail].key] = c.tail
         /\ EvictsSafely(IF impl = "A" THEN EvictStepA(c, sz) ELSE ItemRemove(c, sz, c.tail),
                         sz, v, left - 1)

\* Add(k, v) on cache c, the call as a whole
AddOf(c, sz, k, v) == IF impl = "A" THEN AddA(c, sz, k, v) ELSE AddB(c, sz, k, v)

\* C18: in every state a call can start in, and for every item that fits
\* maxSize, the eviction loop of Add ends after at most as many passes as
\* the cache holds entries, every pass finds a tail that is a held entry, and
\* Add returns
EvictionTerminatesSafely ==
    Returned =>
      \A k \in Keys, v \in Values :
         (Size(sizeOf, v) <= cache.maxSize /\ ReachesEviction(cache, sizeOf, k, v)) =>
            /\ EvictsSafely(BeforeEviction(cache, sizeOf, k), sizeOf, v,
                            Cardinality(Held(BeforeEviction(cache, sizeOf, k))))
            /\ AddOf(cache, sizeOf, k, v).c.status \in {"ok", "oom"}

\* the keys whose entry a step takes out of the cache: removed, evicted, or
\* replaced by the step's Add
Gone == {j \in Held(cache) : j \notin Held(cache') \/ (last'.op = "Add" /\ j = last'.key)}

RECURSIVE SumCounted(_)
SumCounted(S) ==
    IF S = {} THEN 0
    ELSE LET k == CHOOSE x \in S : TRUE IN counted[k] + SumCounted(S \ {k})

\* C19: what a call takes off curSize for the entries it removes, replaces
\* or evicts is what was added to curSize when they were admitted, whatever
\* Size() the payloads report by now
SizeCapturedAtAdmission ==
    [][(last'.op \in {"Add", "Get", "Remove"} /\ cache'.status = "ok") =>
          cache'.curSize = cache.curSize - SumCounted(Gone)
                           + (IF last'.op = "Add" /\ ~last'.err THEN counted'[last'.key] ELSE 0)]_vars

FileKeysUnique ==
    [][(/\ last.op = "PutFile" /\ last'.op = "GetFile"
        /\ last'.ret # NoVal /\ last'.ret = last.val) =>
          /\ last'.acc.FilePath = last.acc.FilePath
          /\ last'.acc.Compression = last.acc.Compression]_vars

\* C22: the same call made on a cache of lrucache.go and on a cache of
\* part_000 that went through the same calls returns on both or on neither,
\* with the same error or nil from Add and the same (value, present) from Get
ObservationallyEquivalent ==
    [][/\ last'.op \in {"Add", "Get", "Remove"} => cache'.status = twin'.status
       /\ (last'.op = "Add" /\ cache'.status = "ok" /\ twin'.status = "ok") =>
             AddA(cache, sizeOf, last'.key, last'.val).err
               = AddB(twin, sizeOf, last'.key, last'.val).err
       /\ (last'.op = "Get" /\ cache'.status = "ok" /\ twin'.status = "ok") =>
             /\ GetA(cache, sizeOf, last'.key).ok = GetB(twin, sizeOf, last'.key).ok
             /\ GetA(cache, sizeOf, last'.key).val = GetB(twin, sizeOf, last'.key).val]_vars

====
